---- MODULE Spec2Model ----
(***************************************************************************)
(* Model of script/lending/achieve_apy_goals.py: the run that drives each  *)
(* lending pool toward its target utilization by borrowing.                *)
(*                                                                         *)
(* Python ints are unbounded and Python floats are IEEE-754 binary64, so   *)
(* the model carries its own arbitrary-precision naturals (little-endian   *)
(* limb sequences) and a binary64 arithmetic with round-to-nearest-even on *)
(* a 53-bit significand.  Exponent overflow and subnormals are out of      *)
(* reach of the amounts used (all magnitudes lie in 1e-30 .. 1e40).        *)
(***************************************************************************)
EXTENDS Integers, Sequences, FiniteSets, TLC

----------------------------------------------------------------------------
(* Arbitrary-precision naturals: <<l1, l2, ...>> is l1 + l2*Base + ...,     *)
(* without leading (most significant) zero limbs; <<>> is 0.               *)

\* bits per limb
LimbBits == 15
Base == 2 ^ LimbBits

Max(x, y) == IF x >= y THEN x ELSE y

MaxOf(S) == CHOOSE x \in S : \A y \in S : y <= x

\* a without its most significant zero limbs
BigNorm(a) ==
    LET nonzero == {i \in 1..Len(a) : a[i] # 0}
    IN  IF nonzero = {} THEN <<>> ELSE SubSeq(a, 1, MaxOf(nonzero))

\* the natural n < 2^31 as limbs
BigFromNat(n) ==
    BigNorm(<<n % Base, (n \div Base) % Base, n \div (Base * Base)>>)

BigZero == <<>>

BigLimb(a, i) == IF i >= 1 /\ i <= Len(a) THEN a[i] ELSE 0

\* -1, 0 or 1 as a < b, a = b, a > b: decided by the highest differing limb
BigCmp(a, b) ==
    LET differ == {i \in 1..Max(Len(a), Len(b)) : BigLimb(a, i) # BigLimb(b, i)}
    IN  IF differ = {} THEN 0
        ELSE IF BigLimb(a, MaxOf(differ)) > BigLimb(b, MaxOf(differ)) THEN 1
        ELSE -1

BigLt(a, b) == BigCmp(a, b) < 0
BigLe(a, b) == BigCmp(a, b) <= 0

\* a + b: the carry into limb i comes from the nearest lower column whose
\* sum is not Base - 1, when that column overflows
BigAdd(a, b) ==
    LET col(i)   == BigLimb(a, i) + BigLimb(b, i)
        carry(i) == LET lower == {j \in 1..(i - 1) : col(j) # Base - 1}
                    IN  IF lower # {} /\ col(MaxOf(lower)) >= Base
                        THEN 1 ELSE 0
    IN  BigNorm([i \in 1..(Max(Len(a), Len(b)) + 1) |->
                    (col(i) + carry(i)) % Base])

\* a - b for a >= b: the borrow into limb i comes from the nearest lower
\* limb where a and b differ, when a's is the smaller
BigSub(a, b) ==
    LET borrow(i) == LET lower == {j \in 1..(i - 1) :
                                      BigLimb(a, j) # BigLimb(b, j)}
                     IN  IF lower # {} /\ BigLimb(a, MaxOf(lower))
                                          < BigLimb(b, MaxOf(lower))
                         THEN 1 ELSE 0
    IN  BigNorm([i \in 1..Len(a) |->
                    (a[i] - BigLimb(b, i) - borrow(i) + Base) % Base])

\* a * k for 0 <= k < Base: low halves plus high halves one limb up
BigMulSmall(a, k) ==
    BigAdd(BigNorm([i \in 1..Len(a) |-> (a[i] * k) % Base]),
           BigNorm([i \in 1..(Len(a) + 1) |->
                       IF i = 1 THEN 0 ELSE (a[i - 1] * k) \div Base]))

Zeros(n) == [i \in 1..n |-> 0]

\* a * Base^n
BigShiftLimbs(a, n) == IF a = <<>> THEN <<>> ELSE Zeros(n) \o a

\* a times limb j of b, in place
PartialProduct(a, b, j) == BigShiftLimbs(BigMulSmall(a, BigLimb(b, j)), j - 1)

\* a * b for b of at most 5 limbs (75 bits: a float significand, or a power
\* of ten up to 10 ** 22)
BigMulShort(a, b) ==
    BigAdd(BigAdd(BigAdd(PartialProduct(a, b, 1), PartialProduct(a, b, 2)),
                  BigAdd(PartialProduct(a, b, 3), PartialProduct(a, b, 4))),
           PartialProduct(a, b, 5))

\* a * b, one limb of the shorter factor at a time
BigMul(a, b) ==
    IF Len(a) >= Len(b) THEN BigMulShort(a, b) ELSE BigMulShort(b, a)

\* number of significant bits of 0 <= n < Base
SmallBitLen(n) == Cardinality({k \in 0..(LimbBits - 1) : 2 ^ k <= n})

\* number of significant bits of a (0 for 0)
BigBitLen(a) ==
    IF a = <<>> THEN 0 ELSE (Len(a) - 1) * LimbBits + SmallBitLen(a[Len(a)])

\* bit i (0 = least significant) of a
BigBit(a, i) ==
    (BigLimb(a, (i \div LimbBits) + 1) \div (2 ^ (i % LimbBits))) % 2

\* a * 2^n
BigShl(a, n) ==
    LET s == n % LimbBits
    IN  BigShiftLimbs(
            BigNorm([i \in 1..(Len(a) + 1) |->
                        ((BigLimb(a, i) * (2 ^ s)) % Base)
                        + (BigLimb(a, i - 1) \div (2 ^ (LimbBits - s)))]),
            n \div LimbBits)

\* floor(a / 2^n)
BigShr(a, n) ==
    LET s     == n % LimbBits
        whole == n \div LimbBits
    IN  BigNorm([i \in 1..(Len(a) - whole) |->
                    (BigLimb(a, i + whole) \div (2 ^ s))
                    + ((BigLimb(a, i + whole + 1) % (2 ^ s))
                       * (2 ^ (LimbBits - s)))])

\* a mod 2^n
BigLowBits(a, n) ==
    LET s     == n % LimbBits
        whole == n \div LimbBits
    IN  BigNorm([i \in 1..(whole + 1) |->
                    IF i <= whole THEN BigLimb(a, i)
                    ELSE BigLimb(a, i) % (2 ^ s)])

\* the quotient digit of r by b, estimated from the leading limbs; when the
\* top limb of b is at least Base / 2 it is at most 2 too large
EstimateDigit(r, b) ==
    LET top == BigLimb(r, Len(b) + 1) * Base + BigLimb(r, Len(b))
    IN  IF top \div b[Len(b)] > Base - 1 THEN Base - 1 ELSE top \div b[Len(b)]

\* the largest d with d * b <= r, given an estimate at most 2 too large
CorrectDigit(r, b, est) ==
    IF BigLe(BigMulSmall(b, est), r) THEN est
    ELSE IF BigLe(BigMulSmall(b, est - 1), r) THEN est - 1
    ELSE est - 2

\* the quotient so far (most significant limb first) extended by digit d,
\* and what is left of r
TakeDigit(quot, r, b, d) ==
    [quot |-> quot \o <<d>>, rem |-> BigSub(r, BigMulSmall(b, d))]

DivideRemainder(quot, r, b) ==
    TakeDigit(quot, r, b, CorrectDigit(r, b, EstimateDigit(r, b)))

\* one step of long division: bring down a limb below the running remainder
DivideLimb(prev, limb, b) ==
    DivideRemainder(prev.quot, BigNorm(<<limb>> \o prev.rem), b)

\* four steps of long division, from limb i + 3 of a down to limb i
DivideLimbs(prev, a, b, i) ==
    DivideLimb(DivideLimb(DivideLimb(DivideLimb(prev, BigLimb(a, i + 3), b),
                                     BigLimb(a, i + 2), b),
                          BigLimb(a, i + 1), b),
               BigLimb(a, i), b)

\* long division of a dividend of at most 12 limbs (180 bits), from its top
\* limb down
BigDivModFrom(a, b) ==
    DivideLimbs(DivideLimbs(DivideLimbs([quot |-> <<>>, rem |-> <<>>],
                                        a, b, 9),
                            a, b, 5),
                a, b, 1)

Reverse(s) == [i \in 1..Len(s) |-> s[Len(s) + 1 - i]]

\* the result of dividing operands that were both shifted left by s bits
Unshift(qr, s) ==
    [quot |-> BigNorm(Reverse(qr.quot)), rem |-> BigShr(qr.rem, s)]

DivModShifted(a, b, s) ==
    Unshift(BigDivModFrom(BigShl(a, s), BigShl(b, s)), s)

\* quotient and remainder of a by b > 0, by long division in base Base on
\* operands shifted so that the top limb of the divisor is at least Base / 2
BigDivMod(a, b) == DivModShifted(a, b, LimbBits - SmallBitLen(b[Len(b)]))

\* 10 ** d
BigPow10(d) ==
    IF d <= 9 THEN BigFromNat(10 ^ d)
    ELSE IF d <= 18 THEN BigMul(BigFromNat(10 ^ 9), BigFromNat(10 ^ (d - 9)))
    ELSE BigMul(BigMul(BigFromNat(10 ^ 9), BigFromNat(10 ^ 9)),
                BigFromNat(10 ^ (d - 18)))

----------------------------------------------------------------------------
(* IEEE-754 binary64 values as used by Python's float.  A float is         *)
(* [neg, m, e] with value (-1)^neg * m * 2^e; a nonzero m always has       *)
(* exactly Precision bits, so equal values have equal representations.     *)

Precision == 53

FloatZero == [neg |-> FALSE, m |-> <<>>, e |-> 0]

IsZero(x) == x.m = <<>>

Float(m, e) == [neg |-> FALSE, m |-> m, e |-> e]

Negate(x) == [x EXCEPT !.neg = TRUE]

\* whether a significand q is rounded up, c comparing the discarded bits
\* with half a unit in the last place: to nearest, ties to even
RoundsUp(q, c, sticky) ==
    c > 0 \/ (c = 0 /\ (sticky \/ BigBit(q, 0) = 1))

\* a rounded significand that grew to Precision + 1 bits is a power of two
Renormalize(q, e) ==
    IF BigBitLen(q) > Precision THEN Float(BigShr(q, 1), e + 1)
    ELSE Float(q, e)

RoundSignificand(q, c, e, sticky) ==
    Renormalize(IF RoundsUp(q, c, sticky) THEN BigAdd(q, <<1>>) ELSE q, e)

\* n * 2^e with shift > 0 bits too many
DropBits(n, e, sticky, shift) ==
    RoundSignificand(BigShr(n, shift),
                     BigCmp(BigLowBits(n, shift), BigShl(<<1>>, shift - 1)),
                     e + shift, sticky)

\* n * 2^e for n of len bits
RoundBits(n, e, sticky, len) ==
    IF len <= Precision
    THEN Float(BigShl(n, Precision - len), e - (Precision - len))
    ELSE DropBits(n, e, sticky, len - Precision)

\* round n * 2^e (plus a nonzero tail below n when sticky) to nearest, ties
\* to even
RoundNearestEven(n, e, sticky) ==
    IF n = <<>> THEN FloatZero ELSE RoundBits(n, e, sticky, BigBitLen(n))

\* float(n) for an int n >= 0
IntToFloat(n) == RoundNearestEven(n, 0, FALSE)

\* the float nearest to (qr.quot + qr.rem / divisor) * 2^e
RoundQuotient(qr, e) == RoundNearestEven(qr.quot, e, qr.rem # <<>>)

\* a / b computed with k extra bits
DivideScaled(a, b, k) == RoundQuotient(BigDivMod(BigShl(a, k), b), 0 - k)

\* Python's int / int: the correctly rounded quotient of the two integers
IntTrueDiv(a, b) ==
    IF a = <<>> THEN FloatZero
    ELSE DivideScaled(a, b, Max(0, Precision + 3 + BigBitLen(b) - BigBitLen(a)))

\* x * y for floats x, y >= 0
FloatMul(x, y) ==
    IF IsZero(x) \/ IsZero(y) THEN FloatZero
    ELSE RoundNearestEven(BigMul(x.m, y.m), x.e + y.e, FALSE)

\* x / y for floats x >= 0, y > 0
FloatDiv(x, y) ==
    IF IsZero(x) THEN FloatZero
    ELSE RoundQuotient(BigDivMod(BigShl(x.m, Precision + 3), y.m),
                       x.e - y.e - (Precision + 3))

\* xs * 2^e - ys * 2^e
SubAligned(xs, ys, e) ==
    IF BigLt(ys, xs) THEN RoundNearestEven(BigSub(xs, ys), e, FALSE)
    ELSE IF BigLt(xs, ys) THEN Negate(RoundNearestEven(BigSub(ys, xs), e, FALSE))
    ELSE FloatZero

SubFrom(x, y, e) == SubAligned(BigShl(x.m, x.e - e), BigShl(y.m, y.e - e), e)

\* x - y for floats x, y >= 0
FloatSub(x, y) ==
    IF IsZero(y) THEN x
    ELSE IF IsZero(x) THEN Negate(y)
    ELSE SubFrom(x, y, IF x.e <= y.e THEN x.e ELSE y.e)

\* x > 0
FloatPositive(x) == ~IsZero(x) /\ ~x.neg

\* int(x): truncation toward zero, for x >= 0
FloatToInt(x) ==
    IF IsZero(x) THEN <<>>
    ELSE IF x.e >= 0 THEN BigShl(x.m, x.e)
    ELSE BigShr(x.m, 0 - x.e)

----------------------------------------------------------------------------
(* The calculation of main(), lines 97-109.                                *)

\* a float literal of the targets table written with two decimals, given in
\* hundredths: 30.19 is Literal(3019)
Literal(hundredths) == IntTrueDiv(BigFromNat(hundredths), BigFromNat(100))

\* max(0, x)
Max0(x) == IF FloatPositive(x) THEN x ELSE FloatZero

\* lines 99-100: total / (10 ** decimals)
TotalFloat(total, decimals) == IntTrueDiv(total, BigPow10(decimals))

\* line 101
CurrentUtil(total_liq_float, total_borr_float) ==
    IF FloatPositive(total_liq_float)
    THEN FloatMul(FloatDiv(total_borr_float, total_liq_float),
                  IntToFloat(BigFromNat(100)))
    ELSE FloatZero

\* line 107
TargetBorr(total_liq_float, util) ==
    FloatMul(total_liq_float, FloatDiv(util, IntToFloat(BigFromNat(100))))

\* line 108
AdditionalBorrow(target_borr, total_borr_float) ==
    Max0(FloatSub(target_borr, total_borr_float))

\* line 109
AdditionalBorrowRaw(additional, decimals) ==
    FloatToInt(FloatMul(additional, IntToFloat(BigPow10(decimals))))

PlanOf(current, additional, decimals) ==
    [current_util          |-> current,
     additional_borrow     |-> additional,
     additional_borrow_raw |-> AdditionalBorrowRaw(additional, decimals)]

PlanFromFloats(total_liq_float, total_borr_float, util, decimals) ==
    PlanOf(CurrentUtil(total_liq_float, total_borr_float),
           AdditionalBorrow(TargetBorr(total_liq_float, util), total_borr_float),
           decimals)

\* the locals of main() after lines 97-109, from the pool state read and the
\* asset's configuration
ComputePlan(total_liq, total_borr, util, decimals) ==
    PlanFromFloats(TotalFloat(total_liq, decimals),
                   TotalFloat(total_borr, decimals), util, decimals)

----------------------------------------------------------------------------
(* Configuration: the targets table (lines 23-33), the deployments file    *)
(* (lines 16-17) and the environment (line 20).                            *)

\* how many rows of the targets table the model carries
NumAssets == 2

\* the keys of the targets table, in insertion order
AssetNames ==
    <<"WBTC", "WETH", "IDRX", "GOLD", "SILVER", "GOOGL", "NVDA", "AAPL", "MNT">>

\* rows a targets table may hold, util written in hundredths of a percent
\* point (2091 is the literal 20.91): the WBTC and WETH rows of lines 24-25
TargetRows ==
    { [util |-> 2091, decimals |-> 8,  status |-> "achieved"],
      [util |-> 3019, decimals |-> 18, status |-> "pending"] }

None == "None"

\* a name of main() or get_pool_state that is bound to no value, and a call
\* that takes no amount: told from every integer, float and ledger entry by a
\* limb no integer has
NoInt == <<-1>>
NoFloat == [neg |-> FALSE, m |-> NoInt, e |-> 0]
NoPool == [liq |-> NoInt, borr |-> NoInt]

\* the text of an output that int() does not accept
NotANumber == <<-2>>

\* what the two queries can read on the ledger, in the asset's smallest unit
\* (18 decimals), written in limbs of Base:
\*   liquidity 0, 75000000000000000000 (75 tokens),
\*             1000000000000000000000 (1000 tokens)
\*   borrowed  0, 22642500000000000000 (22.6425 tokens),
\*             100000000000000000000 (100 tokens)
Liquidities == { <<>>, <<0, 5272, 6792, 1708, 65>>,
                 <<0, 15680, 14103, 11853, 867>> }
Borroweds   == { <<>>, <<16384, 23952, 18211, 20946, 19>>,
                 <<0, 17952, 30901, 24122, 86>> }

PoolStates == [liq : Liquidities, borr : Borroweds]

VARIABLES
    targets,       \* the targets table: asset, util, decimals, status per row
    deployments,   \* the asset symbols deployments.get() resolves
    PRIVATE_KEY,   \* os.environ.get('PRIVATE_KEY'): a key or None
    pc,            \* where main() stands
    idx,           \* the row of targets the for loop is at
    pool,          \* ledger entry of the asset under processing
    liq_text,      \* get_pool_state: first token of the first query's output
    total_liq,     \* locals of main(), NoInt or NoFloat while unbound
    total_borr,
    current_util,
    additional_borrow,
    additional_borrow_raw,
    results,       \* the results list: <<asset, status, amount>>
    console,       \* per-asset lines printed by the loop for skipped assets
    summary,       \* lines printed under SUMMARY
    calls,         \* every function call and subprocess started, in order
    returns,       \* how each subprocess.check_output / run ended, in order
    together       \* between the two queries of get_pool_state: the borrowed
                   \* amounts the ledger has shown beside the liquidity read

config == <<targets, deployments, PRIVATE_KEY>>
locals == <<total_liq, total_borr, current_util, additional_borrow,
            additional_borrow_raw>>
vars == <<targets, deployments, PRIVATE_KEY, pc, idx, pool, liq_text,
          total_liq, total_borr, current_util, additional_borrow,
          additional_borrow_raw, results, console, summary, calls, returns,
          together>>

Assets == {AssetNames[i] : i \in 1..NumAssets}

Init ==
    /\ targets \in { [i \in 1..NumAssets |->
                         [asset    |-> AssetNames[i],
                          util     |-> rows[i].util,
                          decimals |-> rows[i].decimals,
                          status   |-> rows[i].status]] :
                     rows \in [1..NumAssets -> TargetRows] }
    /\ deployments \in SUBSET Assets
    /\ PRIVATE_KEY \in {"0xkey", None}
    /\ pc = "loop"
    /\ idx = 1
    /\ pool = NoPool
    /\ liq_text = NoInt
    /\ total_liq = NoInt
    /\ total_borr = NoInt
    /\ current_util = NoFloat
    /\ additional_borrow = NoFloat
    /\ additional_borrow_raw = NoInt
    /\ results = <<>>
    /\ console = <<>>
    /\ summary = <<>>
    /\ calls = <<>>
    /\ returns = <<>>
    /\ together = {}

asset == targets[idx].asset

\* the locals of main() are dead when the try block is entered: every one is
\* assigned again before it is read
ClearLocals ==
    /\ total_liq' = NoInt
    /\ total_borr' = NoInt
    /\ current_util' = NoFloat
    /\ additional_borrow' = NoFloat
    /\ additional_borrow_raw' = NoInt

\* Record inside a retry loop: an asset that failed is not recorded and the
\* loop takes it up again
RecordUnlessRetried(status, amount) ==
    /\ results' = IF status \in {"failed", "error"}
                  THEN results
                  ELSE Append(results, <<asset, status, amount>>)
    /\ idx' = IF status \in {"failed", "error"} THEN idx ELSE idx + 1
    /\ pc' = "loop"

\* Record with results.insert(0, ...) for results.append(...)
RecordInFront(status, amount) ==
    /\ results' = <<(<<asset, status, amount>>)>> \o results
    /\ idx' = idx + 1
    /\ pc' = "loop"

\* results.append((asset, status, amount)) and on to the next row
Record(status, amount) ==
    /\ results' = Append(results, <<asset, status, amount>>)
    /\ idx' = idx + 1
    /\ pc' = "loop"

\* lines 82-84: status 'achieved'
SkipAchieved ==
    /\ pc = "loop"
    /\ idx <= NumAssets
    /\ targets[idx].status = "achieved"
    /\ console' = Append(console, <<asset, "Already achieved">>)
    /\ idx' = idx + 1
    /\ UNCHANGED <<config, pc, pool, liq_text, locals, results, summary,
                   calls, returns, together>>

\* lines 86-89: deployments.get(asset) is None
SkipUnresolved ==
    /\ pc = "loop"
    /\ idx <= NumAssets
    /\ targets[idx].status # "achieved"
    /\ asset \notin deployments
    /\ console' = Append(console, <<asset, "Not found in deployments">>)
    /\ idx' = idx + 1
    /\ UNCHANGED <<config, pc, pool, liq_text, locals, results, summary,
                   calls, returns, together>>

\* BeginAsset without the test of line 82: the loop body runs for an achieved
\* row as well
BeginAssetAnyStatus ==
    /\ pc = "loop"
    /\ idx <= NumAssets
    /\ asset \in deployments
    /\ pool' \in PoolStates
    /\ calls' = calls \o << <<"get_pool_state", asset, NoInt>>,
                           <<"cast call totalLiquidity", asset, NoInt>> >>
    /\ pc' = "query_liq"
    /\ ClearLocals
    /\ UNCHANGED <<config, idx, liq_text, results, console, summary, returns,
                   together>>

\* lines 86-96 and 37-41: get_pool_state is called and starts the
\* totalLiquidity query
BeginAsset ==
    /\ pc = "loop"
    /\ idx <= NumAssets
    /\ targets[idx].status # "achieved"
    /\ asset \in deployments
    /\ pool' \in PoolStates
    /\ calls' = calls \o << <<"get_pool_state", asset, NoInt>>,
                           <<"cast call totalLiquidity", asset, NoInt>> >>
    /\ pc' = "query_liq"
    /\ ClearLocals
    /\ UNCHANGED <<config, idx, liq_text, results, console, summary, returns,
                   together>>

\* other users of the protocol supply, withdraw, borrow and repay while a
\* query is in flight
PoolChange ==
    /\ pc \in {"query_liq", "query_borr"}
    /\ pool' \in PoolStates \ {pool}
    /\ together' = IF pc = "query_borr" /\ pool'.liq = liq_text
                   THEN together \cup {pool'.borr}
                   ELSE together
    /\ UNCHANGED <<config, pc, idx, liq_text, locals, results, console,
                   summary, calls, returns>>

\* what a cast call can come back with: a nonzero exit status, or an output
\* that is empty, not a number, or the number on the ledger
QueryOutcomes == {"fails", "empty", "garbage", "number"}

\* RecordError with the try around the whole loop instead of its body: the
\* first exception ends the loop
RecordErrorAndStop ==
    /\ results' = Append(results, <<asset, "error", FloatZero>>)
    /\ idx' = NumAssets + 1
    /\ pc' = "loop"
    /\ pool' = NoPool
    /\ liq_text' = NoInt
    /\ together' = {}
    /\ UNCHANGED <<config, locals, console, summary, calls>>

\* RecordError with the except clause recording 'no_action'
RecordErrorAsNoAction ==
    /\ Record("no_action", FloatZero)
    /\ pool' = NoPool
    /\ liq_text' = NoInt
    /\ together' = {}
    /\ UNCHANGED <<config, locals, console, summary, calls>>

\* RecordError without the except clause: the exception leaves main() and
\* the run ends there
RecordErrorUncaught ==
    /\ pc' = "crashed"
    /\ pool' = NoPool
    /\ liq_text' = NoInt
    /\ together' = {}
    /\ UNCHANGED <<config, idx, results, locals, console, summary, calls>>

\* lines 128-130: the except clause of the loop body, reached from inside
\* get_pool_state
RecordError ==
    /\ Record("error", FloatZero)
    /\ pool' = NoPool
    /\ liq_text' = NoInt
    /\ together' = {}
    /\ UNCHANGED <<config, locals, console, summary, calls>>

\* lines 37-41 return and lines 43-47 start the totalBorrowed query
QueryLiquidityReturns ==
    /\ pc = "query_liq"
    /\ \E outcome \in QueryOutcomes :
          /\ returns' = Append(returns, <<"totalLiquidity", asset, outcome>>)
          /\ IF outcome \in {"fails", "empty"}
             THEN \* CalledProcessError, or IndexError from split()[0]
                  RecordError
             ELSE /\ liq_text' = IF outcome = "number" THEN pool.liq
                                                       ELSE NotANumber
                  /\ calls' = Append(calls,
                                     <<"cast call totalBorrowed", asset, NoInt>>)
                  /\ pc' = "query_borr"
                  /\ together' = IF outcome = "number" THEN {pool.borr} ELSE {}
                  /\ UNCHANGED <<config, idx, pool, locals, results, console,
                                 summary>>

\* lines 43-49: the totalBorrowed query returns and both texts are parsed
QueryBorrowedReturns ==
    /\ pc = "query_borr"
    /\ \E outcome \in QueryOutcomes :
          /\ returns' = Append(returns, <<"totalBorrowed", asset, outcome>>)
          /\ IF outcome \in {"fails", "empty"} \/ outcome = "garbage"
                \/ liq_text = NotANumber
             THEN \* CalledProcessError, IndexError, or ValueError from int()
                  RecordError
             ELSE /\ total_liq' = liq_text
                  /\ total_borr' = pool.borr
                  /\ pool' = NoPool
                  /\ liq_text' = NoInt
                  /\ together' = {}
                  /\ pc' = "compute"
                  /\ UNCHANGED <<config, idx, current_util, additional_borrow,
                                 additional_borrow_raw, results, console,
                                 summary, calls>>

\* Decide without the test of line 111: borrow_asset is called with whatever
\* amount was computed
DecideAlwaysBorrow(plan) ==
    /\ current_util' = plan.current_util
    /\ additional_borrow' = plan.additional_borrow
    /\ additional_borrow_raw' = plan.additional_borrow_raw
    /\ calls' = Append(calls, <<"borrow_asset", asset,
                                plan.additional_borrow_raw>>)
    /\ pc' = "borrow"
    /\ UNCHANGED <<config, idx, results, pool, liq_text, total_liq, total_borr,
                   console, summary, returns, together>>

\* lines 111-115 and 124-126: a positive raw amount calls borrow_asset,
\* anything else records 'no_action'
Decide(plan) ==
    /\ current_util' = plan.current_util
    /\ additional_borrow' = plan.additional_borrow
    /\ additional_borrow_raw' = plan.additional_borrow_raw
    /\ IF plan.additional_borrow_raw # BigZero
       THEN /\ calls' = Append(calls, <<"borrow_asset", asset,
                                        plan.additional_borrow_raw>>)
            /\ pc' = "borrow"
            /\ UNCHANGED <<idx, results>>
       ELSE /\ Record("no_action", FloatZero)
            /\ UNCHANGED calls
    /\ UNCHANGED <<config, pool, liq_text, total_liq, total_borr, console,
                   summary, returns, together>>

\* Compute without the conditional of line 101: the division by a zero
\* total_liq_float raises ZeroDivisionError, which lines 128-130 catch
ComputeUnguarded ==
    /\ pc = "compute"
    /\ IF total_liq = BigZero
       THEN RecordError /\ UNCHANGED returns
       ELSE Decide(ComputePlan(total_liq, total_borr,
                               Literal(targets[idx].util),
                               targets[idx].decimals))

\* lines 97-115 and 124-126: the plan is computed and acted on
Compute ==
    /\ pc = "compute"
    /\ Decide(ComputePlan(total_liq, total_borr, Literal(targets[idx].util),
                          targets[idx].decimals))

\* lines 53-68 with PRIVATE_KEY None: subprocess.run rejects the None in its
\* argument list with a TypeError before any process starts; lines 121-123
BorrowWithoutKey ==
    /\ pc = "borrow"
    /\ PRIVATE_KEY = None
    /\ returns' = Append(returns, <<"borrow", asset, "TypeError">>)
    /\ Record("failed", additional_borrow)
    /\ UNCHANGED <<config, pool, liq_text, locals, console, summary, calls,
                   together>>

\* what cast send can come back with: output naming a transactionHash, output
\* without one, or the exception of line 67, which is TimeoutExpired when
\* there is no answer within 60 s
SendOutcomes == {"transactionHash", "no hash", "timeout"}

\* RecordBorrow without the test of line 117
RecordBorrowAsSuccess(success) == Record("success", additional_borrow)

\* RecordBorrow with a flag that is set by the first failed borrow and never
\* reset: every asset after it is recorded 'failed'
RecordBorrowSharedFlag(success) ==
    IF success /\ \A k \in DOMAIN results : results[k][2] # "failed"
    THEN Record("success", additional_borrow)
    ELSE Record("failed", additional_borrow)

\* RecordBorrow with line 123 appending (asset, 'failed', 0)
RecordBorrowFailedAsZero(success) ==
    IF success
    THEN Record("success", additional_borrow)
    ELSE Record("failed", FloatZero)

\* lines 117-123: the pair borrow_asset returned is recorded
RecordBorrow(success) ==
    IF success
    THEN Record("success", additional_borrow)
    ELSE Record("failed", additional_borrow)

\* lines 53-68 and 115-123: cast send runs and its outcome is recorded
BorrowReturns ==
    /\ pc = "borrow"
    /\ PRIVATE_KEY # None
    /\ \E outcome \in SendOutcomes :
          /\ calls' = Append(calls, <<"cast send borrow", asset,
                                      additional_borrow_raw>>)
          /\ returns' = Append(returns, <<"borrow", asset, outcome>>)
          /\ RecordBorrow(outcome = "transactionHash")
    /\ UNCHANGED <<config, pool, liq_text, locals, console, summary, together>>

\* the line of lines 136-144 for one entry of results
SummaryLine(entry) ==
    <<entry[1],
      IF entry[2] = "success" THEN "Borrowed"
      ELSE IF entry[2] = "failed" THEN "Failed to borrow"
      ELSE IF entry[2] = "no_action" THEN "Already at target"
      ELSE "Error occurred">>

\* lines 132-148: the loop is over and the summary is printed
Summary ==
    /\ pc = "loop"
    /\ idx > NumAssets
    /\ summary' = [i \in 1..Len(results) |-> SummaryLine(results[i])]
    /\ pc' = "done"
    /\ UNCHANGED <<config, idx, pool, liq_text, locals, results, console,
                   calls, returns, together>>

Next ==
    \/ SkipAchieved
    \/ SkipUnresolved
    \/ BeginAsset
    \/ PoolChange
    \/ QueryLiquidityReturns
    \/ QueryBorrowedReturns
    \/ Compute
    \/ BorrowWithoutKey
    \/ BorrowReturns
    \/ Summary

Spec == Init /\ [][Next]_vars

----------------------------------------------------------------------------
(* Properties.                                                             *)

\* the row of the targets table an asset symbol names
RowOf(a) == CHOOSE i \in 1..NumAssets : targets[i].asset = a

\* the positions of calls, returns and results that concern an asset
CallsFor(a) == {k \in DOMAIN calls : calls[k][2] = a}
ReturnsFor(a) == {k \in DOMAIN returns : returns[k][2] = a}
RecordsOf(a) == {k \in DOMAIN results : results[k][1] = a}

\* the calls of borrow_asset and the cast send it starts
BorrowCalls == {k \in DOMAIN calls :
                   calls[k][1] \in {"borrow_asset", "cast send borrow"}}

\* C1: for an asset whose row has status 'achieved', get_pool_state and
\* borrow_asset are never called and no subprocess is started, whatever
\* deployments holds and whatever happens to the other assets.
AchievedNeverCalled ==
    \A i \in 1..NumAssets :
        targets[i].status = "achieved" => CallsFor(targets[i].asset) = {}

\* a finished run with an achieved asset that deployments resolves, beside
\* another asset that was read and borrowed for
AchievedNeverCalledWitness ==
    /\ pc = "done"
    /\ \E i, j \in 1..NumAssets :
          /\ targets[i].status = "achieved"
          /\ targets[i].asset \in deployments
          /\ \E k \in BorrowCalls : calls[k][2] = targets[j].asset

\* C2: every call of borrow_asset, and every cast send it starts, carries a
\* raw amount strictly greater than 0.
BorrowAmountPositive ==
    \A k \in BorrowCalls : BigLt(BigZero, calls[k][3])

\* a run in which one asset was borrowed for and another, computed to need
\* nothing, was not
BorrowAmountPositiveWitness ==
    /\ \E k \in BorrowCalls : calls[k][1] = "cast send borrow"
    /\ \E k \in DOMAIN results :
          /\ results[k][2] = "no_action"
          /\ \A c \in BorrowCalls : calls[c][2] # results[k][1]

\* C3: at the end of a run the results list, from which the summary is
\* printed, holds exactly one record for every asset of the targets table,
\* achieved rows and assets missing from deployments included.
EveryAssetRecordedOnce ==
    pc = "done" =>
        /\ Len(summary) = NumAssets
        /\ \A i \in 1..NumAssets :
              Cardinality(RecordsOf(targets[i].asset)) = 1

\* C4: a pending asset that deployments does not resolve has, once the loop
\* is past it, exactly one record in results and no call made for it.
UnresolvedRecordedOnce ==
    \A i \in 1..NumAssets :
        (/\ i < idx
         /\ targets[i].status = "pending"
         /\ targets[i].asset \notin deployments)
        => /\ Cardinality(RecordsOf(targets[i].asset)) = 1
           /\ CallsFor(targets[i].asset) = {}

\* one of the two queries of get_pool_state failed for the asset: the
\* subprocess exited nonzero, or its output was empty or no integer
ReaderFailed(a) ==
    \E k \in ReturnsFor(a) :
        /\ returns[k][1] \in {"totalLiquidity", "totalBorrowed"}
        /\ returns[k][3] \in {"fails", "empty", "garbage"}

\* the loop has left the asset behind with a record in results or a line on
\* the console
Terminal(a) ==
    \/ Cardinality(RecordsOf(a)) = 1
    \/ \E k \in DOMAIN console : console[k][1] = a

LaterAssetsTerminal(i) ==
    pc = "done" => \A j \in (i + 1)..NumAssets : Terminal(targets[j].asset)

\* C5: when a query of get_pool_state fails for an asset, borrow_asset is
\* never called for it, results gets exactly one record for it, of status
\* 'error', and every asset after it in the table is still processed.
ReaderFailureIsolated ==
    \A i \in 1..NumAssets :
        ReaderFailed(targets[i].asset) =>
            /\ \A k \in BorrowCalls : calls[k][2] # targets[i].asset
            /\ \A k \in RecordsOf(targets[i].asset) : results[k][2] = "error"
            /\ Cardinality(RecordsOf(targets[i].asset))
                  = (IF i < idx THEN 1 ELSE 0)
            /\ LaterAssetsTerminal(i)

\* a finished run in which the first asset's totalLiquidity was no integer
\* and a later asset was borrowed for
ReaderFailureIsolatedWitness ==
    /\ pc = "done"
    /\ \E i, j \in 1..NumAssets :
          /\ i < j
          /\ \E k \in ReturnsFor(targets[i].asset) :
                returns[k] = <<"totalLiquidity", targets[i].asset, "garbage">>
          /\ \E k \in RecordsOf(targets[j].asset) : results[k][2] = "success"

\* borrow_asset returned (False, ...) for the asset: cast send printed no
\* transactionHash, timed out, or subprocess.run raised
WriteFailed(a) ==
    \E k \in ReturnsFor(a) :
        /\ returns[k][1] = "borrow"
        /\ returns[k][3] # "transactionHash"

\* C6: when borrow_asset fails for an asset, results gets exactly one record
\* for it, of status 'failed', and every asset after it in the table is
\* still processed.
WriteFailureRecorded ==
    \A i \in 1..NumAssets :
        WriteFailed(targets[i].asset) =>
            /\ Cardinality(RecordsOf(targets[i].asset)) = 1
            /\ \A k \in RecordsOf(targets[i].asset) : results[k][2] = "failed"
            /\ LaterAssetsTerminal(i)

\* a finished run in which cast send timed out for the first asset and a
\* later asset was read
WriteFailureRecordedWitness ==
    /\ pc = "done"
    /\ \E i, j \in 1..NumAssets :
          /\ i < j
          /\ \E k \in ReturnsFor(targets[i].asset) :
                returns[k] = <<"borrow", targets[i].asset, "timeout">>
          /\ CallsFor(targets[j].asset) # {}
          /\ Cardinality(RecordsOf(targets[j].asset)) = 1

\* C7: in a run without PRIVATE_KEY in the environment no query is sent and
\* borrow_asset is not called.
NoCallWithoutKey ==
    PRIVATE_KEY = None => calls = <<>>

\* the asset get_pool_state was last called for: the one the locals of
\* main() belong to
ReadAsset ==
    calls[MaxOf({k \in DOMAIN calls : calls[k][1] = "get_pool_state"})][2]

\* lines 96-111 have run for ReadAsset: the pool state is read and the plan
\* computed and acted on
Planned == total_liq # NoInt /\ pc # "compute"

\* the target of ReadAsset in hundredths of a percent point, and the scale of
\* that unit against a ratio of 1
TargetUtil == BigFromNat(targets[RowOf(ReadAsset)].util)
FullScale == BigFromNat(10000)

\* total_borr / total_liq * 100 >= util, in exact arithmetic
AtOrAboveTarget ==
    BigLe(BigMul(TargetUtil, total_liq), BigMul(FullScale, total_borr))

\* (total_liq * util / 100 - total_borr), in ten-thousandths of the smallest
\* unit; taken when the pool is below the target
ExactAdditional ==
    BigSub(BigMul(TargetUtil, total_liq), BigMul(FullScale, total_borr))

\* n = floor(x / FullScale)
IsFloorOf(n, x) ==
    /\ BigLe(BigMul(FullScale, n), x)
    /\ BigLt(x, BigAdd(BigMul(FullScale, n), FullScale))

\* results holds one record for ReadAsset, of status 'no_action', and
\* borrow_asset was not called for it
NoActionRecorded ==
    /\ Cardinality(RecordsOf(ReadAsset)) = 1
    /\ \A k \in RecordsOf(ReadAsset) :
          results[k] = <<ReadAsset, "no_action", FloatZero>>
    /\ \A k \in BorrowCalls : calls[k][2] # ReadAsset

\* C8: when the pool read has total_liq > 0 and total_borr / total_liq * 100
\* at or above the target, additional_borrow is 0, the asset is recorded
\* 'no_action' and borrow_asset is not called.
NoBorrowAtOrAboveTarget ==
    (Planned /\ BigLt(BigZero, total_liq) /\ AtOrAboveTarget) =>
        /\ additional_borrow = FloatZero
        /\ additional_borrow_raw = BigZero
        /\ NoActionRecorded

\* C9: when the pool read has total_liq > 0 and total_borr / total_liq * 100
\* below the target, additional_borrow_raw is
\* floor(total_liq * util / 100 - total_borr).
AdditionalRawIsExactFloor ==
    (Planned /\ BigLt(BigZero, total_liq) /\ ~AtOrAboveTarget) =>
        IsFloorOf(additional_borrow_raw, ExactAdditional)

\* C10: when the pool read has total_liq = 0, current_util and
\* additional_borrow are 0, the asset is recorded 'no_action' and not
\* 'error', and borrow_asset is not called.
ZeroLiquidityNoAction ==
    (Planned /\ total_liq = BigZero) =>
        /\ NoActionRecorded
        /\ current_util = FloatZero
        /\ additional_borrow = FloatZero
        /\ additional_borrow_raw = BigZero

\* a pool read with no liquidity but an amount borrowed, planned for
ZeroLiquidityNoActionWitness ==
    /\ Planned
    /\ total_liq = BigZero
    /\ total_borr # BigZero
    /\ \E k \in DOMAIN results : results[k][2] = "no_action"

----------------------------------------------------------------------------
(* A targets table edited to hold a target above 100 percent.              *)

\* rows of such a table: the WBTC row of line 24 and a pending row of 18
\* decimals whose util is 150.00
OutOfRangeRows ==
    { [util |-> 2091,  decimals |-> 8,  status |-> "achieved"],
      [util |-> 15000, decimals |-> 18, status |-> "pending"] }

InitOutOfRange ==
    /\ targets \in { [i \in 1..NumAssets |->
                         [asset    |-> AssetNames[i],
                          util     |-> rows[i].util,
                          decimals |-> rows[i].decimals,
                          status   |-> rows[i].status]] :
                     rows \in [1..NumAssets -> OutOfRangeRows] }
    /\ deployments \in SUBSET Assets
    /\ PRIVATE_KEY \in {"0xkey", None}
    /\ pc = "loop"
    /\ idx = 1
    /\ pool = NoPool
    /\ liq_text = NoInt
    /\ total_liq = NoInt
    /\ total_borr = NoInt
    /\ current_util = NoFloat
    /\ additional_borrow = NoFloat
    /\ additional_borrow_raw = NoInt
    /\ results = <<>>
    /\ console = <<>>
    /\ summary = <<>>
    /\ calls = <<>>
    /\ returns = <<>>
    /\ together = {}

SpecOutOfRange == InitOutOfRange /\ [][Next]_vars

\* C11: a pending, resolved asset whose configured target is above 100
\* percent ends, once the loop is past it, with exactly one record of status
\* 'error', and borrow_asset is never called for it.
InvalidTargetRejected ==
    \A i \in 1..NumAssets :
        (/\ targets[i].util > 10000
         /\ targets[i].status = "pending"
         /\ targets[i].asset \in deployments)
        => /\ \A k \in BorrowCalls : calls[k][2] # targets[i].asset
           /\ \A k \in RecordsOf(targets[i].asset) : results[k][2] = "error"
           /\ i < idx => Cardinality(RecordsOf(targets[i].asset)) = 1

----------------------------------------------------------------------------
\* the plan a following run computes for ReadAsset when the ledger holds the
\* liquidity this run read and the borrowed amount this run read plus what it
\* borrowed; a run keeps nothing from the run before it, so its plan is
\* lines 97-109 applied to that pool state and the same targets row
NextRunPlan ==
    ComputePlan(total_liq, BigAdd(total_borr, additional_borrow_raw),
                Literal(targets[RowOf(ReadAsset)].util),
                targets[RowOf(ReadAsset)].decimals)

\* C12: after a run has recorded 'success' for an asset, a following run over
\* the same liquidity and the borrowed amount raised by what was borrowed
\* computes additional_borrow_raw = 0, so records 'no_action' and does not
\* borrow again.
ConvergedAfterSuccess ==
    (/\ Planned
     /\ \E k \in RecordsOf(ReadAsset) : results[k][2] = "success")
    => NextRunPlan.additional_borrow_raw = BigZero

\* C13: the pair get_pool_state returns is one the ledger held at a single
\* instant between its two queries: the borrowed amount it returns stood
\* beside the liquidity it returns.
SnapshotAtomic ==
    [][(pc = "query_borr" /\ pc' = "compute") => total_borr' \in together]_vars

\* the calls of one kind made for an asset
CallsOfKind(kind, a) ==
    {k \in DOMAIN calls : calls[k][1] = kind /\ calls[k][2] = a}

CallKinds ==
    {"get_pool_state", "cast call totalLiquidity", "cast call totalBorrowed",
     "borrow_asset", "cast send borrow"}

\* C14: in one run get_pool_state and each of its queries, borrow_asset and
\* its cast send are called at most once per asset, whether they succeed,
\* fail or time out.
AtMostOncePerAsset ==
    \A a \in Assets : \A kind \in CallKinds :
        Cardinality(CallsOfKind(kind, a)) <= 1

\* a finished run in which one asset's first query failed and another
\* asset's cast send timed out, each called once
AtMostOncePerAssetWitness ==
    /\ pc = "done"
    /\ \E a, b \in Assets :
          /\ \E k \in ReturnsFor(a) : returns[k] = <<"totalLiquidity", a, "fails">>
          /\ Cardinality(CallsOfKind("get_pool_state", a)) = 1
          /\ \E k \in ReturnsFor(b) : returns[k] = <<"borrow", b, "timeout">>
          /\ Cardinality(CallsOfKind("cast send borrow", b)) = 1

\* C15: the records of results, and the summary lines printed from them,
\* stand in the order of the targets table: one asset's record precedes
\* another's exactly when its row precedes the other's.
ResultsInTableOrder ==
    /\ \A k, l \in DOMAIN results :
          k < l <=> RowOf(results[k][1]) < RowOf(results[l][1])
    /\ pc = "done" =>
          /\ Len(summary) = Len(results)
          /\ \A k \in DOMAIN summary : summary[k][1] = results[k][1]

\* a finished run whose first asset failed to borrow and whose second asset
\* needed nothing
ResultsInTableOrderWitness ==
    /\ pc = "done"
    /\ Len(results) = 2
    /\ results[1][2] = "failed"
    /\ results[2][2] = "no_action"
    /\ summary[1][1] = targets[1].asset

\* both queries of get_pool_state returned a number for the asset
ReadSucceeded(a) ==
    /\ \E k \in ReturnsFor(a) : returns[k] = <<"totalLiquidity", a, "number">>
    /\ \E k \in ReturnsFor(a) : returns[k] = <<"totalBorrowed", a, "number">>

\* the status of the asset's record in results, None when it has none
StatusOf(a) ==
    IF RecordsOf(a) = {} THEN None
    ELSE results[CHOOSE k \in RecordsOf(a) : TRUE][2]

\* C16: borrow_asset is called for an asset only after both queries of
\* get_pool_state returned a number for it, and with the
\* additional_borrow_raw computed from them; its record is 'no_action'
\* exactly when the read succeeded and borrow_asset was not called
\* (additional_borrow_raw = 0), and 'success' or 'failed' exactly when
\* borrow_asset was called, once.
ReadThenPlanThenBorrow ==
    \A i \in 1..NumAssets :
        LET a == targets[i].asset
            borrows == CallsOfKind("borrow_asset", a)
        IN  /\ borrows # {} => ReadSucceeded(a)
            /\ \A k \in BorrowCalls :
                  (calls[k][2] = a /\ Planned /\ ReadAsset = a)
                  => calls[k][3] = additional_borrow_raw
            /\ (Planned /\ ReadAsset = a) =>
                  (borrows = {} <=> additional_borrow_raw = BigZero)
            /\ i < idx =>
                  /\ StatusOf(a) = "no_action"
                        <=> (ReadSucceeded(a) /\ borrows = {})
                  /\ StatusOf(a) \in {"success", "failed"}
                        <=> Cardinality(borrows) = 1

\* a finished run in which one asset was read and needed nothing and another
\* was read and borrowed for with success
ReadThenPlanThenBorrowWitness ==
    /\ pc = "done"
    /\ \E a, b \in Assets :
          /\ StatusOf(a) = "no_action"
          /\ ReadSucceeded(a)
          /\ StatusOf(b) = "success"
          /\ Cardinality(CallsOfKind("cast send borrow", b)) = 1

\* what lines 111-126 do with a plan, read off the step taken
PlanActedOn(plan) ==
    /\ additional_borrow' = plan.additional_borrow
    /\ additional_borrow_raw' = plan.additional_borrow_raw
    /\ IF plan.additional_borrow_raw = BigZero
       THEN results' = Append(results, <<asset, "no_action", FloatZero>>)
       ELSE /\ results' = results
            /\ calls' = Append(calls, <<"borrow_asset", asset,
                                        plan.additional_borrow_raw>>)

\* the status a returned borrow_asset leads to, by how its cast send ended
BorrowStatus(ended) ==
    IF ended[3] = "transactionHash" THEN "success" ELSE "failed"

\* C17: what is recorded and borrowed for an asset is a function of that
\* asset's own row, pool state and call outcomes: the plan is that of lines
\* 97-109 on its own row and the pool state read for it; a returned
\* borrow_asset records 'success' or 'failed' by its own outcome, with the
\* amount planned; a failed read records 'error'; and no step changes the
\* record of an asset processed before.
OutcomeFromOwnInputs ==
    [][ /\ pc = "compute" =>
              \E plan \in {ComputePlan(total_liq, total_borr,
                                       Literal(targets[idx].util),
                                       targets[idx].decimals)} :
                  PlanActedOn(plan)
        /\ pc = "borrow" =>
              results' = Append(results,
                                <<asset, BorrowStatus(returns'[Len(returns')]),
                                  additional_borrow>>)
        /\ (pc \in {"query_liq", "query_borr"} /\ results' # results) =>
              results' = Append(results, <<asset, "error", FloatZero>>)
        /\ \A k \in DOMAIN results :
              k \in DOMAIN results' /\ results'[k] = results[k]
      ]_vars

\* a finished run in which the first asset failed to borrow and a later asset
\* with the same row borrowed with success
OutcomeFromOwnInputsWitness ==
    /\ pc = "done"
    /\ \E i, j \in 1..NumAssets :
          /\ i < j
          /\ targets[i].util = targets[j].util
          /\ StatusOf(targets[i].asset) = "failed"
          /\ StatusOf(targets[j].asset) = "success"

----------------------------------------------------------------------------
(* The run under the assumption that every subprocess returns or fails:    *)
(* check_output blocks until cast call exits, run until cast send exits or *)
(* 60 s have passed; everything else is straight-line code.                *)

\* weak fairness of Compute, written out: lines 97-126 can run exactly when
\* main() stands at them (ENABLED <<Compute>>_vars is pc = "compute") and every
\* step of theirs moves it on, so main() does not stand there for ever
ComputeFair == []<>(pc # "compute")

FairSpec ==
    /\ Spec
    /\ WF_vars(SkipAchieved)
    /\ WF_vars(SkipUnresolved)
    /\ WF_vars(BeginAsset)
    /\ WF_vars(QueryLiquidityReturns)
    /\ WF_vars(QueryBorrowedReturns)
    /\ ComputeFair
    /\ WF_vars(BorrowWithoutKey)
    /\ WF_vars(BorrowReturns)
    /\ WF_vars(Summary)

\* the loop has been at the asset's row once: it left one record in results
\* or one line on the console
VisitedOnce(a) ==
    Cardinality(RecordsOf(a))
        + Cardinality({k \in DOMAIN console : console[k][1] = a}) = 1

\* C18: whatever reads and borrows fail, the run reaches the summary, having
\* been at every row of the targets table exactly once.
RunReachesSummary ==
    <>(pc = "done" /\ \A a \in Assets : VisitedOnce(a))

\* a finished run with a failed read and a failed borrow behind it
RunReachesSummaryWitness ==
    /\ pc = "done"
    /\ \A a \in Assets : VisitedOnce(a)
    /\ \E k \in DOMAIN results : results[k][2] = "error"
    /\ \E k \in DOMAIN results : results[k][2] = "failed"

----------------------------------------------------------------------------
(* The amounts in results against the amounts borrow_asset was called with. *)

\* the amounts borrow_asset and cast send were given for an asset
AmountsSent(a) == {calls[k][3] : k \in {c \in BorrowCalls : calls[c][2] = a}}

\* C19: an asset recorded 'error' has no call of borrow_asset and no cast send
\* behind it; a 'success' or 'failed' record carries a strictly positive amount
\* and borrow_asset was called for the asset with one amount, positive: the
\* record carries additional_borrow and the call additional_borrow_raw of the
\* same pass through lines 107-109 (compared while main() still holds them);
\* a 'no_action' or 'error' record carries 0.
RecordedAmountMatchesAction ==
    \A k \in DOMAIN results :
        IF results[k][2] \in {"success", "failed"}
        THEN /\ FloatPositive(results[k][3])
             /\ Cardinality(AmountsSent(results[k][1])) = 1
             /\ BigZero \notin AmountsSent(results[k][1])
             /\ (Planned /\ ReadAsset = results[k][1]) =>
                    /\ results[k][3] = additional_borrow
                    /\ AmountsSent(results[k][1]) = {additional_borrow_raw}
        ELSE /\ results[k][3] = FloatZero
             /\ results[k][2] = "error" => AmountsSent(results[k][1]) = {}

\* a finished run with a borrow that went through and a borrow that cast
\* send failed
RecordedAmountMatchesActionWitness ==
    /\ pc = "done"
    /\ \E k \in DOMAIN results : results[k][2] = "success"
    /\ \E k \in DOMAIN results :
          /\ results[k][2] = "failed"
          /\ CallsOfKind("cast send borrow", results[k][1]) # {}

====
